---- MODULE Spec2Model ----
(***************************************************************************)
(* FikaTutor internal tool: upload handler (app.py), LLM conversion with   *)
(* token-budget truncation and schema validation (json_converter.py).      *)
(*                                                                         *)
(* Strings that can be hundreds of thousands of characters long are kept   *)
(* as ropes: a sequence of segments [src, lo, hi], the characters lo..hi-1 *)
(* of the named source text.  Two ropes are equal exactly when they hold   *)
(* the same characters of the same sources in the same order, so slicing,  *)
(* concatenation, len() and strip() are computed, not assumed.             *)
(***************************************************************************)
EXTENDS Integers, Sequences, FiniteSets

VARIABLES
    truncArgs,   \* arguments of one call of _truncate_to_token_limit
    truncRet,    \* what that call returned and logged
    convArgs,    \* arguments and environment of one call of convert_to_json
    convRet,     \* what that call returned or raised, the request it sent, its log
    doc,         \* a parsed JSON document handed to validate_json_structure
    verr,        \* what validate_json_structure returned for doc
    cfg,         \* process configuration read from the environment
    pc,          \* position of upload_file: "idle", "loop", "done"
    request_files, \* upload_file: request.files.getlist('file')
    files,       \* upload_file: files (after the empty-filename filter)
    idx,         \* upload_file: index of the next file of the for loop
    results,     \* upload_file: results
    temp_files,  \* upload_file: temp_files
    fs,          \* temporary files that exist on disk
    extracted,   \* per file of the request: what parse_file returned for it
    llmCalls,    \* per file of the request: the answers to its completion requests
    response,    \* the HTTP response of upload_file
    unlink_warnings  \* upload_file: the paths logged as "Could not delete temp file"

vars == <<truncArgs, truncRet, convArgs, convRet, doc, verr, cfg, pc, request_files,
          files, idx, results, temp_files, fs, extracted, llmCalls, response,
          unlink_warnings>>

Min(a, b) == IF a <= b THEN a ELSE b
Max(a, b) == IF a >= b THEN a ELSE b

(***************************************************************************)
(* Python str, as a rope.                                                  *)
(***************************************************************************)
Seg(src, n) == IF n > 0 THEN <<[src |-> src, lo |-> 0, hi |-> n]>> ELSE <<>>

RECURSIVE StrLen(_)
StrLen(s) == IF s = <<>> THEN 0 ELSE (Head(s).hi - Head(s).lo) + StrLen(Tail(s))

\* The first n characters of s (n >= 0).
RECURSIVE Take(_, _)
Take(s, n) ==
    IF s = <<>> \/ n <= 0 THEN <<>>
    ELSE LET h == Head(s)
             l == h.hi - h.lo
         IN  IF n >= l THEN <<h>> \o Take(Tail(s), n - l)
             ELSE <<[h EXCEPT !.hi = h.lo + n]>>

\* s[:k]: a negative k counts from the end of s.
PySliceTo(s, k) ==
    IF k >= 0 THEN Take(s, Min(k, StrLen(s)))
    ELSE Take(s, Max(StrLen(s) + k, 0))

\* s.strip(): whitespace runs are the segments of source "ws".
RECURSIVE LStrip(_)
LStrip(s) == IF s # <<>> /\ Head(s).src = "ws" THEN LStrip(Tail(s)) ELSE s

RECURSIVE RStrip(_)
RStrip(s) ==
    IF s # <<>> /\ s[Len(s)].src = "ws" THEN RStrip(SubSeq(s, 1, Len(s) - 1)) ELSE s

Strip(s) == RStrip(LStrip(s))

(***************************************************************************)
(* Parsed JSON values (what json.loads returns).  Every value carries its  *)
(* type, its members (a dict's keys and values) and its items (a list's).  *)
(***************************************************************************)
JStr == [t |-> "string", fields |-> <<>>, items |-> <<>>]
JNull == [t |-> "null", fields |-> <<>>, items |-> <<>>]
JObj(f) == [t |-> "object", fields |-> f, items |-> <<>>]
JArr(s) == [t |-> "array", fields |-> <<>>, items |-> s]

IsDict(v) == v.t = "object"
IsList(v) == v.t = "array"
\* key in d, for a dict d
HasKey(d, key) == key \in DOMAIN d.fields

(***************************************************************************)
(* json_converter.py: validate_json_structure.  A returned message is kept *)
(* as its template and the values formatted into it.                       *)
(***************************************************************************)
None == [msg |-> "None", chapter |-> -1, topic |-> -1, field |-> ""]
Err(msg, i, j, field) == [msg |-> msg, chapter |-> i, topic |-> j, field |-> field]

required_fields == <<"title", "description", "chapters">>

required_topic_fields ==
    <<"topic_id", "title", "content", "examples", "real_world_applications", "keywords">>

\* A mutant of the array checks: keywords is not checked.
array_fields_without_keywords == <<"examples", "real_world_applications">>

array_fields == <<"examples", "real_world_applications", "keywords">>

\* for field in fields: if field not in obj: return ...  (0: none is missing)
RECURSIVE FirstMissing(_, _, _)
FirstMissing(fields, obj, k) ==
    IF k > Len(fields) THEN 0
    ELSE IF ~HasKey(obj, fields[k]) THEN k
    ELSE FirstMissing(fields, obj, k + 1)

\* for array_field in [...]: if not isinstance(topic[array_field], list): return ...
RECURSIVE FirstNonArray(_, _, _)
FirstNonArray(fields, obj, k) ==
    IF k > Len(fields) THEN 0
    ELSE IF ~IsList(obj.fields[fields[k]]) THEN k
    ELSE FirstNonArray(fields, obj, k + 1)

\* A mutant of the topic checks: the array types are checked before the
\* presence of the fields.
ValidateTopicArraysFirst(i, j, topic) ==
    IF ~IsDict(topic) THEN Err("Chapter {i}, Topic {j} must be an object", i, j, "")
    ELSE LET bad == {k \in 1..Len(array_fields) :
                        /\ HasKey(topic, array_fields[k])
                        /\ ~IsList(topic.fields[array_fields[k]])}
             m == FirstMissing(required_topic_fields, topic, 1)
         IN  IF bad # {}
             THEN Err("Chapter {i}, Topic {j} '{array_field}' must be an array", i, j,
                      array_fields[CHOOSE k \in bad : \A n \in bad : k <= n])
             ELSE IF m # 0
             THEN Err("Chapter {i}, Topic {j} missing '{field}'", i, j,
                      required_topic_fields[m])
             ELSE None

\* The body of the topic loop for topic j of chapter i (both 0-based).
ValidateTopic(i, j, topic) ==
    IF ~IsDict(topic) THEN Err("Chapter {i}, Topic {j} must be an object", i, j, "")
    ELSE LET m == FirstMissing(required_topic_fields, topic, 1)
         IN  IF m # 0
             THEN Err("Chapter {i}, Topic {j} missing '{field}'", i, j,
                      required_topic_fields[m])
             ELSE LET a == FirstNonArray(array_fields, topic, 1)
                  IN  IF a # 0
                      THEN Err("Chapter {i}, Topic {j} '{array_field}' must be an array",
                               i, j, array_fields[a])
                      ELSE None

\* for j, topic in enumerate(chapter["topics"]), from the k-th item on
RECURSIVE ValidateTopics(_, _, _)
ValidateTopics(i, topics, k) ==
    IF k > Len(topics) THEN None
    ELSE LET e == ValidateTopic(i, k - 1, topics[k])
         IN  IF e # None THEN e ELSE ValidateTopics(i, topics, k + 1)

\* The body of the chapter loop for chapter i (0-based).
ValidateChapter(i, chapter) ==
    IF ~IsDict(chapter) THEN Err("Chapter {i} must be an object", i, -1, "")
    ELSE IF ~HasKey(chapter, "title") THEN Err("Chapter {i} missing 'title'", i, -1, "title")
    ELSE IF ~HasKey(chapter, "topics")
    THEN Err("Chapter {i} missing 'topics'", i, -1, "topics")
    ELSE IF ~IsList(chapter.fields["topics"])
    THEN Err("Chapter {i} 'topics' must be an array", i, -1, "topics")
    ELSE ValidateTopics(i, chapter.fields["topics"].items, 1)

\* for i, chapter in enumerate(subject["chapters"]), from the k-th item on
RECURSIVE ValidateChapters(_, _)
ValidateChapters(chapters, k) ==
    IF k > Len(chapters) THEN None
    ELSE LET e == ValidateChapter(k - 1, chapters[k])
         IN  IF e # None THEN e ELSE ValidateChapters(chapters, k + 1)

validate_json_structure(data) ==
    IF ~IsDict(data) \/ ~HasKey(data, "subject_name")
    THEN Err("Missing 'subject_name' at root level", -1, -1, "subject_name")
    ELSE LET subject == data.fields["subject_name"]
         IN  IF ~IsDict(subject)
             THEN Err("'subject_name' must be an object", -1, -1, "subject_name")
             ELSE LET m == FirstMissing(required_fields, subject, 1)
                  IN  IF m # 0
                      THEN Err("Missing required field '{field}' in subject_name",
                               -1, -1, required_fields[m])
                      ELSE IF ~IsList(subject.fields["chapters"])
                      THEN Err("'chapters' must be an array", -1, -1, "chapters")
                      ELSE ValidateChapters(subject.fields["chapters"].items, 1)

(***************************************************************************)
(* json_converter.py: the prompts and the token budget.                    *)
(***************************************************************************)
SystemPromptLen == 2906
TemplateHeadLen == 92
TemplateMidLen == 11
TemplateTailLen == 41
TruncationNoticeLen == 106
MODEL_CONTEXT_LIMIT == 128000

system_prompt == Seg("system_prompt", SystemPromptLen)

\* The literal parts of the template around {filename} and {text_content}.
user_prompt_template ==
    [head |-> Seg("template_head", TemplateHeadLen),
     mid  |-> Seg("template_mid", TemplateMidLen),
     tail |-> Seg("template_tail", TemplateTailLen)]

TruncationNotice == Seg("notice", TruncationNoticeLen)

\* template.format(filename=..., text_content=...)
Format(template, filename, text_content) ==
    template.head \o filename \o template.mid \o text_content \o template.tail

_estimate_tokens(text) == StrLen(text) \div 4

\* A mutant of the margin: the product is rounded up.
SafetyMarginRoundedUp(max_context_tokens) == (max_context_tokens * 5 + 99) \div 100

\* int(max_context_tokens * 0.05): for every context size up to two million
\* tokens the float product truncates to floor(max_context_tokens / 20).
SafetyMargin(max_context_tokens) == (max_context_tokens * 5) \div 100

AvailableTokens(system, template, filename, max_context_tokens, max_output_tokens) ==
    LET system_tokens == _estimate_tokens(system)
        user_wrapper == Format(template, filename, <<>>)
        user_wrapper_tokens == _estimate_tokens(user_wrapper)
        reserved_tokens == system_tokens + user_wrapper_tokens + max_output_tokens
        safety_margin == SafetyMargin(max_context_tokens)
    IN  max_context_tokens - reserved_tokens - safety_margin

\* A logger call: its level, its message and the numbers formatted into it.
LogEntry(level, event, detail) == [level |-> level, event |-> event, detail |-> detail]

\* A mutant of the slice: one token's worth of characters too many.
TruncatedSliceOffByOne(text, available_tokens) ==
    PySliceTo(text, available_tokens * 4 + 4)

\* max_chars = available_tokens * 4; truncated = text[:max_chars]
TruncatedSlice(text, available_tokens) ==
    PySliceTo(text, available_tokens * 4)

\* A mutant of the comparison: a text exactly at the budget is truncated too.
FitsStrict(text, available_tokens) == _estimate_tokens(text) < available_tokens

\* text_tokens <= available_tokens
Fits(text, available_tokens) == _estimate_tokens(text) <= available_tokens

\* The returned text, and the warnings the call logged.
_truncate_to_token_limit(text, system, template, filename, max_context_tokens, max_output_tokens) ==
    LET available_tokens ==
            AvailableTokens(system, template, filename,
                            max_context_tokens, max_output_tokens)
        text_tokens == _estimate_tokens(text)
        truncated == TruncatedSlice(text, available_tokens)
    IN  IF Fits(text, available_tokens)
        THEN [text |-> text, log |-> <<>>]
        ELSE [text |-> truncated \o TruncationNotice,
              log  |-> <<LogEntry("warning", "Text too long ... Truncating",
                                  <<text_tokens, available_tokens,
                                    StrLen(text), StrLen(truncated)>>)>>]

(***************************************************************************)
(* json_converter.py: convert_to_json.                                     *)
(***************************************************************************)
LargeThreshold == 300000
MediumThreshold == 100000
LargeDefault == 16000
MediumDefault == 8000
SmallDefault == 4000

\* int(os.getenv("MAX_OUTPUT_TOKENS", default)) for a configuration that is
\* unset or holds an integer.
GetenvMaxOutputTokens(default) ==
    IF cfg.max_output_tokens.set THEN cfg.max_output_tokens.value ELSE default

\* A mutant of the tiers: the thresholds themselves fall in the larger tier.
MaxTokensForInclusive(content_length) ==
    IF content_length >= LargeThreshold THEN GetenvMaxOutputTokens(LargeDefault)
    ELSE IF content_length >= MediumThreshold THEN GetenvMaxOutputTokens(MediumDefault)
    ELSE GetenvMaxOutputTokens(SmallDefault)

MaxTokensFor(content_length) ==
    IF content_length > LargeThreshold THEN GetenvMaxOutputTokens(LargeDefault)
    ELSE IF content_length > MediumThreshold THEN GetenvMaxOutputTokens(MediumDefault)
    ELSE GetenvMaxOutputTokens(SmallDefault)

(* What client.chat.completions.create does with one request: it raises, or it
   returns a message whose content is missing, or whose content is a text.
   json.loads either raises JSONDecodeError on that text or returns the value
   it denotes: a text is kept as that value (is_json, doc) or as not JSON. *)
LLMError == [kind |-> "error", is_json |-> FALSE, doc |-> JNull]
LLMNoContent == [kind |-> "no_content", is_json |-> FALSE, doc |-> JNull]
LLMGarbage == [kind |-> "content", is_json |-> FALSE, doc |-> JNull]
LLMJson(d) == [kind |-> "content", is_json |-> TRUE, doc |-> d]

Returned(value, log) ==
    [outcome |-> "return", value |-> value, error |-> "", log |-> log]
Raised(error, log) ==
    [outcome |-> "raise", value |-> JNull, error |-> error, log |-> log]

\* A mutant of the parse step: a schema violation is raised instead of logged.
ParseResponseStrict(llm) ==
    IF ~llm.is_json
    THEN Raised("ValueError: Invalid JSON response from OpenAI",
                <<LogEntry("error", "Failed to parse JSON response", <<>>),
                  LogEntry("error", "Response text", <<>>)>>)
    ELSE IF validate_json_structure(llm.doc) # None
    THEN Raised("ValueError: schema", <<>>)
    ELSE Returned(llm.doc, <<LogEntry("info", "Successfully parsed JSON response", <<>>)>>)

\* json.loads(response_text), the advisory validation, the return or the raise.
ParseResponse(llm) ==
    IF ~llm.is_json
    THEN Raised("ValueError: Invalid JSON response from OpenAI",
                <<LogEntry("error", "Failed to parse JSON response", <<>>),
                  LogEntry("error", "Response text", <<>>)>>)
    ELSE LET validation_error == validate_json_structure(llm.doc)
             parsed == <<LogEntry("info", "Successfully parsed JSON response", <<>>)>>
         IN  IF validation_error # None
             THEN Returned(llm.doc,
                           parsed \o <<LogEntry("warning",
                                                "JSON structure validation warning", <<>>)>>)
             ELSE Returned(llm.doc, parsed)

\* A mutant of the call: a failed call is issued a second time.
IssueRequestsWithRetry(request, llm) ==
    IF llm.kind = "error" THEN <<request, request>> ELSE <<request>>

\* The completion requests one conversion issues: the one call of line 240.
IssueRequests(request, llm) == <<request>>

\* A mutant of the failure path: an unparseable response yields an empty document.
AfterResponseWithDefault(llm) ==
    IF llm.kind = "error" THEN Raised("APIError", <<>>)
    ELSE IF llm.kind = "no_content"
    THEN Raised("AttributeError: 'NoneType' object has no attribute 'strip'", <<>>)
    ELSE IF ~llm.is_json THEN Returned(JObj(<<>>), <<>>)
    ELSE ParseResponse(llm)

\* What follows the call: its exception, .content.strip(), the parse.
AfterResponse(llm) ==
    IF llm.kind = "error" THEN Raised("APIError", <<>>)
    ELSE IF llm.kind = "no_content"
    THEN Raised("AttributeError: 'NoneType' object has no attribute 'strip'", <<>>)
    ELSE ParseResponse(llm)

BuildRequest(user_prompt, max_tokens) ==
    [model |-> "gpt-4o-mini", system |-> system_prompt, user |-> user_prompt,
     max_tokens |-> max_tokens]

(* convert_to_json(text_content, filename), the client answering llm.  The
   result holds what the caller sees (outcome, value, error) and what the call
   did: the requests it issued, the output reservation it budgeted with, its
   log.  The outer except logs and re-raises. *)
convert_to_json(text_content, filename, llm) ==
    LET content_length == StrLen(text_content)
        max_tokens == MaxTokensFor(content_length)
        t == _truncate_to_token_limit(text_content, system_prompt,
                                      user_prompt_template, filename,
                                      MODEL_CONTEXT_LIMIT, max_tokens)
        user_prompt == Format(user_prompt_template, filename, t.text)
        request == BuildRequest(user_prompt, max_tokens)
        r == AfterResponse(llm)
        sending == <<LogEntry("info", "Sending request to OpenAI API...",
                              <<StrLen(t.text), max_tokens>>)>>
        reraised == IF r.outcome = "raise"
                    THEN <<LogEntry("error", "Error converting to JSON", <<>>)>>
                    ELSE <<>>
    IN  [outcome |-> r.outcome, value |-> r.value, error |-> r.error,
         requests |-> IssueRequests(request, llm),
         reserved_output |-> max_tokens,
         log |-> t.log \o sending \o r.log \o reraised]

(***************************************************************************)
(* Values of the variables a specification does not use.                   *)
(***************************************************************************)
NotCalled == [text |-> <<>>, log |-> <<>>, called |-> FALSE]
NoTruncArgs ==
    [text |-> <<>>, system |-> <<>>, template |-> user_prompt_template,
     filename |-> <<>>, max_context_tokens |-> 0, max_output_tokens |-> 0]
NoConvArgs == [text |-> <<>>, filename |-> <<>>]
NotConverted ==
    [called |-> FALSE, outcome |-> "", value |-> JNull, error |-> "",
     requests |-> <<>>, reserved_output |-> 0, log |-> <<>>, llm |-> LLMError]
NotValidated == [called |-> FALSE, error |-> None]
DefaultCfg ==
    [max_output_tokens |-> [set |-> FALSE, value |-> 0], max_files_per_request |-> 0]
NoResponse ==
    [status |-> 0, kind |-> "", error |-> "", data |-> JNull, results |-> <<>>,
     summary |-> [total_files |-> 0, successful |-> 0, failed |-> 0]]

TruncUnused == truncArgs = NoTruncArgs /\ truncRet = NotCalled
ConvUnused == convArgs = NoConvArgs /\ convRet = NotConverted
ValidateUnused == doc = JNull /\ verr = NotValidated
UploadUnused ==
    /\ pc = "idle" /\ request_files = <<>> /\ files = <<>> /\ idx = 0 /\ results = <<>>
    /\ temp_files = <<>> /\ fs = {} /\ extracted = <<>> /\ llmCalls = <<>>
    /\ response = NoResponse /\ unlink_warnings = <<>>

(***************************************************************************)
(* app.py and file_parser.py: the upload handler.                          *)
(***************************************************************************)
UpperCase == <<"A", "B", "C", "D", "E", "F", "G", "H", "I", "J", "K", "L", "M",
               "N", "O", "P", "Q", "R", "S", "T", "U", "V", "W", "X", "Y", "Z">>
LowerCase == <<"a", "b", "c", "d", "e", "f", "g", "h", "i", "j", "k", "l", "m",
               "n", "o", "p", "q", "r", "s", "t", "u", "v", "w", "x", "y", "z">>

\* str.lower(), on a sequence of characters
LowerOf ==
    [c \in {UpperCase[i] : i \in 1..26} |-> LowerCase[CHOOSE i \in 1..26 : UpperCase[i] = c]]
LowerChar(c) == IF c \in DOMAIN LowerOf THEN LowerOf[c] ELSE c
Lower(name) == [i \in 1..Len(name) |-> LowerChar(name[i])]

\* The last index of character c in name, 0 when it has none.
LastIndexOf(name, c) ==
    LET at == {i \in 1..Len(name) : name[i] = c}
    IN  IF at = {} THEN 0 ELSE CHOOSE i \in at : \A k \in at : k <= i

\* os.path.splitext(name)[1]: from the last dot of the last path component,
\* unless only dots precede it there.
SplitExt(name) ==
    LET sepIndex == LastIndexOf(name, "/")
        dotIndex == LastIndexOf(name, ".")
    IN  IF dotIndex > sepIndex
           /\ \E k \in (sepIndex + 1)..(dotIndex - 1) : name[k] # "."
        THEN SubSeq(name, dotIndex, Len(name))
        ELSE <<>>

allowed_extensions ==
    <<<<".", "p", "d", "f">>, <<".", "d", "o", "c">>, <<".", "d", "o", "c", "x">>,
      <<".", "p", "p", "t">>, <<".", "p", "p", "t", "x">>>>

FileExtension(file) == Lower(SplitExt(file.filename))
Allowed(file_extension) ==
    \E i \in 1..Len(allowed_extensions) : allowed_extensions[i] = file_extension

\* The filename as it is formatted into the prompt.
FilenameStr(name) == Seg("filename", Len(name))

(* file_parser.parse_file: dispatch on the extension to the PDF, DOC or PPT
   library, whose answer lib is the text it extracts or an exception. *)
parse_file(file_extension, lib) ==
    IF Lower(file_extension) \in
          {<<".", "p", "d", "f">>, <<".", "d", "o", "c">>, <<".", "d", "o", "c", "x">>,
           <<".", "p", "p", "t">>, <<".", "p", "p", "t", "x">>}
    THEN lib
    ELSE [raises |-> TRUE, text |-> <<>>]

MinTextLen == 50

\* not extracted_text or len(extracted_text.strip()) < 50
Insufficient(extracted_text) ==
    extracted_text = <<>> \/ StrLen(Strip(extracted_text)) < MinTextLen

ErrorResult(name, msg, e) ==
    [filename |-> name, status |-> "error", error |-> [msg |-> msg, e |-> e],
     data |-> JNull]
SuccessResult(name, json_output) ==
    [filename |-> name, status |-> "success", error |-> [msg |-> "", e |-> ""],
     data |-> json_output]

RECURSIVE CountSuccess(_)
CountSuccess(res) ==
    IF res = <<>> THEN 0
    ELSE (IF Head(res).status = "success" THEN 1 ELSE 0) + CountSuccess(Tail(res))

\* Lines 134-155: the response for the results of the loop.
BuildResponse(fileList, res) ==
    LET successful == CountSuccess(res)
        failed == Len(res) - successful
    IN  IF Len(fileList) = 1
        THEN IF res[1].status = "success"
             THEN [NoResponse EXCEPT !.status = 200, !.kind = "data", !.data = res[1].data]
             ELSE [NoResponse EXCEPT !.status = 400, !.kind = "error",
                                     !.error = res[1].error.msg]
        ELSE [NoResponse EXCEPT !.status = 200, !.kind = "structured", !.results = res,
                                !.summary = [total_files |-> Len(fileList),
                                             successful |-> successful,
                                             failed |-> failed]]

ErrorResponse(status, msg) ==
    [NoResponse EXCEPT !.status = status, !.kind = "error", !.error = msg]

\* The finally block when os.unlink succeeds: every path of temp_files that
\* exists is unlinked.
Cleanup(disk, paths) == disk \ {paths[i] : i \in 1..Len(paths)}

(* The finally block, lines 157-164: for each path of temp_files that exists,
   os.unlink deletes it, or raises, and then the path is logged and the file
   stays.  unlink_raises: os.unlink raises for the files of this request. *)
Finally(disk, paths, unlink_raises) ==
    [disk |-> IF unlink_raises THEN disk ELSE Cleanup(disk, paths),
     warnings |-> IF unlink_raises THEN SelectSeq(paths, LAMBDA t : t \in disk) ELSE <<>>]

\* A mutant of the filter: parts without a filename are kept.
FilterEmptyKeepsAll(names) == names

\* files = [f for f in files if f.filename != '']
RECURSIVE FilterEmpty(_)
FilterEmpty(names) ==
    IF names = <<>> THEN <<>>
    ELSE (IF Head(names).filename # <<>> THEN <<Head(names)>> ELSE <<>>)
             \o FilterEmpty(Tail(names))

(***************************************************************************)
(* SpecTrunc: _truncate_to_token_limit as a function of its six arguments. *)
(***************************************************************************)
MaxTextLen == 48

TruncTexts == {Seg("ws", w) \o Seg("doc", n) : w \in {0, 3}, n \in 0..MaxTextLen}
TruncSystems == {Seg("system_prompt", n) : n \in {0, 7, 8}}
TruncTemplates ==
    {user_prompt_template,
     [head |-> Seg("template_head", 3), mid |-> Seg("template_mid", 1),
      tail |-> Seg("template_tail", 2)]}
TruncFilenames == {Seg("filename", n) : n \in {0, 2}}
TruncContexts == {0, 10, 20, 21, 60, 200}
TruncOutputs == {0, 5, 12, 30}

TruncArgsSet ==
    [text : TruncTexts, system : TruncSystems, template : TruncTemplates,
     filename : TruncFilenames, max_context_tokens : TruncContexts,
     max_output_tokens : TruncOutputs]

TruncInit ==
    /\ truncArgs \in TruncArgsSet
    /\ truncRet = NotCalled
    /\ cfg = DefaultCfg
    /\ ConvUnused /\ ValidateUnused /\ UploadUnused

TruncateToTokenLimit ==
    /\ ~truncRet.called
    /\ LET r == _truncate_to_token_limit(
                    truncArgs.text, truncArgs.system, truncArgs.template,
                    truncArgs.filename, truncArgs.max_context_tokens,
                    truncArgs.max_output_tokens)
       IN  truncRet' = [text |-> r.text, log |-> r.log, called |-> TRUE]
    /\ UNCHANGED <<truncArgs, convArgs, convRet, doc, verr, cfg, pc, request_files, files, idx,
                   results, temp_files, fs, extracted, llmCalls, response, unlink_warnings>>

TruncNext == TruncateToTokenLimit

SpecTrunc == TruncInit /\ [][TruncNext]_vars

(***************************************************************************)
(* SpecConvert: one call of convert_to_json, with the program's prompts    *)
(* and context limit, under each configuration of MAX_OUTPUT_TOKENS.       *)
(***************************************************************************)
\* Extracted texts around the tier thresholds and around the budget.
ConvTextLens ==
    {0, 3, 50, 20000, 100000, 100001, 300000, 300001, 419351, 419352, 1000000}
ConvTexts ==
    {Seg("doc", n) : n \in ConvTextLens}
        \cup {Seg("ws", 2) \o Seg("doc", 300000) \o Seg("ws", 1)}
ConvFilenames == {Seg("filename", n) : n \in {5, 6, 40}}

\* MAX_OUTPUT_TOKENS: unset, or an integer.
ConvOutputSettings ==
    {[set |-> FALSE, value |-> 0]}
        \cup {[set |-> TRUE, value |-> v] : v \in {4000, 100000, 120837, 120838, 125000}}

TopicOf(missing, nonArray) ==
    JObj([k \in {"topic_id", "title", "content", "examples",
                 "real_world_applications", "keywords"} \ missing |->
            IF k \in {"examples", "real_world_applications", "keywords"} \ nonArray
            THEN JArr(<<>>) ELSE JStr])
ChapterOf(topics) == JObj([k \in {"title", "topics"} |-> IF k = "topics" THEN topics ELSE JStr])
SubjectOf(chapters) ==
    JObj([k \in {"subject_name"} |->
            JObj([f \in {"title", "description", "chapters"} |->
                    IF f = "chapters" THEN chapters ELSE JStr])])

\* One chapter, one topic, all six topic fields, empty arrays.
MinimalDoc == SubjectOf(JArr(<<ChapterOf(JArr(<<TopicOf({}, {})>>))>>))

SampleDocs ==
    {MinimalDoc,
     JObj(<<>>),
     JArr(<<>>),
     SubjectOf(JArr(<<ChapterOf(JArr(<<TopicOf({"keywords"}, {})>>))>>)),
     SubjectOf(JArr(<<ChapterOf(JArr(<<TopicOf({}, {"examples"})>>))>>))}

LLMOutcomes == {LLMError, LLMNoContent, LLMGarbage} \cup {LLMJson(d) : d \in SampleDocs}

ConvInit ==
    /\ convArgs \in [text : ConvTexts, filename : ConvFilenames]
    /\ convRet = NotConverted
    /\ cfg \in [max_output_tokens : ConvOutputSettings, max_files_per_request : {0}]
    /\ TruncUnused /\ ValidateUnused /\ UploadUnused

ConvertToJson ==
    /\ ~convRet.called
    /\ \E llm \in LLMOutcomes :
         LET r == convert_to_json(convArgs.text, convArgs.filename, llm)
         IN  convRet' = [called |-> TRUE, outcome |-> r.outcome, value |-> r.value,
                         error |-> r.error, requests |-> r.requests,
                         reserved_output |-> r.reserved_output, log |-> r.log,
                         llm |-> llm]
    /\ UNCHANGED <<truncArgs, truncRet, convArgs, doc, verr, cfg, pc, request_files, files, idx,
                   results, temp_files, fs, extracted, llmCalls, response, unlink_warnings>>

ConvNext == ConvertToJson

SpecConvert == ConvInit /\ [][ConvNext]_vars

(***************************************************************************)
(* SpecValidate: validate_json_structure on documents grown one chapter    *)
(* and one topic at a time from every kind of root.                        *)
(***************************************************************************)
MaxChapters == 2
MaxTopics == 2

Scalars == {JStr, JNull}

SubjectVariants ==
    Scalars \cup {JArr(<<>>)}
        \cup {JObj([k \in K |-> IF k = "chapters" THEN c ELSE JStr]) :
                K \in SUBSET {"title", "description", "chapters"},
                c \in {JStr, JObj(<<>>), JArr(<<>>)}}

RootDocs ==
    Scalars \cup {JArr(<<>>), JObj(<<>>), JObj([k \in {"title"} |-> JStr])}
        \cup {JObj([k \in {"subject_name"} |-> s]) : s \in SubjectVariants}
        \cup {JObj([k \in {"subject_name", "version"} |->
                      IF k = "version" THEN JStr ELSE SubjectOf(JArr(<<>>)).fields[k]])}

ChapterShells ==
    Scalars \cup {JArr(<<>>)}
        \cup {JObj([k \in K |-> IF k = "topics" THEN t ELSE JStr]) :
                K \in SUBSET {"title", "topics"},
                t \in {JStr, JObj(<<>>), JArr(<<>>)}}

TopicFieldSet ==
    {"topic_id", "title", "content", "examples", "real_world_applications", "keywords"}
TopicArrayFieldSet == {"examples", "real_world_applications", "keywords"}

\* A topic with every field, its arrays holding one string each.
FilledTopic ==
    JObj([k \in TopicFieldSet |-> IF k \in TopicArrayFieldSet THEN JArr(<<JStr>>) ELSE JStr])

TopicVariants ==
    {JStr, JArr(<<>>), FilledTopic}
        \cup {TopicOf(missing, {}) : missing \in {{}} \cup {{f} : f \in TopicFieldSet}}
        \cup {TopicOf({}, {f}) : f \in TopicArrayFieldSet}
        \cup {TopicOf({"topic_id"}, {"keywords"}), TopicOf({"keywords"}, {"examples"}),
              TopicOf({}, TopicArrayFieldSet)}

\* The topics a further topic may follow: documents hold every variant in
\* their last-added topic and these before it.
PrefixTopics == {TopicOf({}, {}), TopicOf({}, {"keywords"}), JStr}

\* The chapters array of a document that has one.
HasChapters(d) ==
    /\ IsDict(d) /\ HasKey(d, "subject_name")
    /\ IsDict(d.fields["subject_name"])
    /\ HasKey(d.fields["subject_name"], "chapters")
    /\ IsList(d.fields["subject_name"].fields["chapters"])
ChaptersOf(d) == d.fields["subject_name"].fields["chapters"].items
WithChapters(d, chapters) ==
    JObj([d.fields EXCEPT !["subject_name"] =
            JObj([@.fields EXCEPT !["chapters"] = JArr(chapters)])])

HasTopics(chapter) ==
    IsDict(chapter) /\ HasKey(chapter, "topics") /\ IsList(chapter.fields["topics"])
TopicCount(chapter) == IF HasTopics(chapter) THEN Len(chapter.fields["topics"].items) ELSE 0
RECURSIVE AllTopics(_)
AllTopics(chapters) ==
    IF chapters = <<>> THEN {}
    ELSE (IF HasTopics(Head(chapters))
          THEN {Head(chapters).fields["topics"].items[j] :
                    j \in 1..Len(Head(chapters).fields["topics"].items)}
          ELSE {}) \cup AllTopics(Tail(chapters))
RECURSIVE TotalTopics(_)
TotalTopics(chapters) ==
    IF chapters = <<>> THEN 0 ELSE TopicCount(Head(chapters)) + TotalTopics(Tail(chapters))

ValidateInit ==
    /\ doc \in RootDocs
    /\ verr = NotValidated
    /\ cfg = DefaultCfg
    /\ TruncUnused /\ ConvUnused /\ UploadUnused

\* The document gets one more chapter.
AppendChapter ==
    /\ ~verr.called /\ HasChapters(doc)
    /\ Len(ChaptersOf(doc)) < MaxChapters
    /\ \E c \in ChapterShells : doc' = WithChapters(doc, Append(ChaptersOf(doc), c))
    /\ UNCHANGED <<truncArgs, truncRet, convArgs, convRet, verr, cfg, pc, request_files, files, idx,
                   results, temp_files, fs, extracted, llmCalls, response, unlink_warnings>>

\* The last chapter of the document gets one more topic.
AppendTopic ==
    /\ ~verr.called /\ HasChapters(doc)
    /\ ChaptersOf(doc) # <<>>
    /\ TotalTopics(ChaptersOf(doc)) < MaxTopics
    /\ AllTopics(ChaptersOf(doc)) \subseteq PrefixTopics
    /\ LET chapters == ChaptersOf(doc)
           n == Len(chapters)
           last == chapters[n]
       IN  /\ HasTopics(last)
           /\ \E t \in TopicVariants :
                doc' = WithChapters(doc,
                          [chapters EXCEPT ![n] =
                              JObj([last.fields EXCEPT !["topics"] =
                                      JArr(Append(@.items, t))])])
    /\ UNCHANGED <<truncArgs, truncRet, convArgs, convRet, verr, cfg, pc, request_files, files, idx,
                   results, temp_files, fs, extracted, llmCalls, response, unlink_warnings>>

ValidateJsonStructure ==
    /\ ~verr.called
    /\ verr' = [called |-> TRUE, error |-> validate_json_structure(doc)]
    /\ UNCHANGED <<truncArgs, truncRet, convArgs, convRet, doc, cfg, pc, request_files, files, idx,
                   results, temp_files, fs, extracted, llmCalls, response, unlink_warnings>>

ValidateNext == AppendChapter \/ AppendTopic \/ ValidateJsonStructure

SpecValidate == ValidateInit /\ [][ValidateNext]_vars

(***************************************************************************)
(* Spec: one POST /upload, file by file.  Each step of the for loop is one *)
(* action per way the step can go: what the temporary file, the parser and *)
(* the completion service answer is chosen there.  The step of the last    *)
(* file runs on through the response and the finally block.                *)
(***************************************************************************)
MaxFiles == 3

FileNames ==
    {<<>>,
     <<"a", ".", "p", "d", "f">>,
     <<"b", ".", "D", "O", "C", "X">>,
     <<"c", ".", "t", "x", "t">>,
     <<".", "p", "d", "f">>}

\* What a parsing library extracts: nothing, blanks only, 49 characters
\* between blanks, or 50 between blanks.
ExtractedTexts ==
    {<<>>,
     Seg("ws", 60),
     Seg("ws", 5) \o Seg("doc", 49) \o Seg("ws", 5),
     Seg("ws", 2) \o Seg("doc", 50) \o Seg("ws", 1)}

UploadLLMOutcomes ==
    {LLMError, LLMNoContent, LLMGarbage, LLMJson(MinimalDoc), LLMJson(JObj(<<>>))}

\* The answer of the completion service as llmCalls keeps it.
AnswerKind(llm) ==
    IF llm.kind = "content" THEN (IF llm.is_json THEN "json" ELSE "not_json") ELSE llm.kind

NotExtracted == [done |-> FALSE, text |-> <<>>]

Init ==
    /\ cfg \in [max_output_tokens : {[set |-> FALSE, value |-> 0]},
                max_files_per_request : {0, 2}]
    /\ TruncUnused /\ ConvUnused /\ ValidateUnused /\ UploadUnused

\* Lines 54-77: the request arrives; its 'file' parts are filtered and counted.
Upload ==
    /\ pc = "idle"
    /\ \E n \in 0..MaxFiles :
         \E names \in [1..n -> FileNames] :
            LET parts == [i \in 1..n |-> [filename |-> names[i]]]
                kept == FilterEmpty(parts)
            IN  /\ request_files' = parts
                /\ files' = kept
                /\ IF n = 0
                   THEN /\ response' = ErrorResponse(400, "No file provided")
                        /\ pc' = "done"
                   ELSE IF kept = <<>>
                   THEN /\ response' = ErrorResponse(400, "No file selected")
                        /\ pc' = "done"
                   ELSE IF cfg.max_files_per_request > 0
                           /\ Len(kept) > cfg.max_files_per_request
                   THEN /\ response' = ErrorResponse(400, "Too many files")
                        /\ pc' = "done"
                   ELSE /\ response' = response
                        /\ pc' = "loop"
                /\ idx' = 1
                /\ extracted' = [i \in 1..Len(kept) |-> NotExtracted]
                /\ llmCalls' = [i \in 1..Len(kept) |-> <<>>]
    /\ results' = <<>> /\ temp_files' = <<>>
    /\ UNCHANGED <<truncArgs, truncRet, convArgs, convRet, doc, verr, cfg, fs,
                   unlink_warnings>>

InLoop == pc = "loop" /\ idx <= Len(files)

\* The end of one step of the loop: on to the next file, or, after the last,
\* the response and the finally block.
EndStep(newResults, newTemp, disk) ==
    /\ results' = newResults
    /\ temp_files' = newTemp
    /\ idx' = idx + 1
    /\ IF idx = Len(files)
       THEN /\ response' = BuildResponse(files, newResults)
            /\ \E unlink_raises \in BOOLEAN :
                 /\ fs' = Finally(disk, newTemp, unlink_raises).disk
                 /\ unlink_warnings' = Finally(disk, newTemp, unlink_raises).warnings
            /\ pc' = "done"
       ELSE /\ response' = response
            /\ fs' = disk
            /\ unlink_warnings' = unlink_warnings
            /\ pc' = "loop"

\* Lines 81-89: the extension is not allowed.
RejectExtension ==
    /\ InLoop
    /\ ~Allowed(FileExtension(files[idx]))
    /\ EndStep(Append(results,
                      ErrorResult(files[idx].filename, "Unsupported file type", "")),
               temp_files, fs)
    /\ UNCHANGED <<truncArgs, truncRet, convArgs, convRet, doc, verr, cfg, request_files, files,
                   extracted, llmCalls>>

\* Lines 94-97, file.save raising: the temporary file exists and is not yet
\* in temp_files; the exception leaves the loop through the finally block to
\* the outer except.
SaveFails ==
    /\ InLoop
    /\ Allowed(FileExtension(files[idx]))
    /\ \E unlink_raises \in BOOLEAN :
         /\ fs' = Finally(fs \cup {idx}, temp_files, unlink_raises).disk
         /\ unlink_warnings' = Finally(fs \cup {idx}, temp_files, unlink_raises).warnings
    /\ response' = ErrorResponse(500, "Error processing files")
    /\ pc' = "done"
    /\ UNCHANGED <<truncArgs, truncRet, convArgs, convRet, doc, verr, cfg, request_files, files, idx,
                   results, temp_files, extracted, llmCalls>>

\* Lines 99-103 and 126-132: parse_file raises.
ExtractionFails ==
    /\ InLoop
    /\ Allowed(FileExtension(files[idx]))
    /\ parse_file(FileExtension(files[idx]), [raises |-> TRUE, text |-> <<>>]).raises
    /\ EndStep(Append(results,
                      ErrorResult(files[idx].filename, "Error processing file: {e}",
                                  "parse error")),
               Append(temp_files, idx), fs \cup {idx})
    /\ UNCHANGED <<truncArgs, truncRet, convArgs, convRet, doc, verr, cfg, request_files, files,
                   extracted, llmCalls>>

\* Lines 104-110: the extracted text is missing or too short.
InsufficientText ==
    /\ InLoop
    /\ Allowed(FileExtension(files[idx]))
    /\ \E text \in ExtractedTexts :
         LET p == parse_file(FileExtension(files[idx]), [raises |-> FALSE, text |-> text])
         IN  /\ ~p.raises
             /\ Insufficient(p.text)
             /\ extracted' = [extracted EXCEPT ![idx] = [done |-> TRUE, text |-> p.text]]
    /\ EndStep(Append(results,
                      ErrorResult(files[idx].filename,
                                  "Could not extract sufficient text from the file", "")),
               Append(temp_files, idx), fs \cup {idx})
    /\ UNCHANGED <<truncArgs, truncRet, convArgs, convRet, doc, verr, cfg, request_files, files,
                   llmCalls>>

\* Lines 112-132: the text goes to convert_to_json, which returns or raises.
Convert ==
    /\ InLoop
    /\ Allowed(FileExtension(files[idx]))
    /\ \E text \in ExtractedTexts, llm \in UploadLLMOutcomes :
         \E p \in {parse_file(FileExtension(files[idx]), [raises |-> FALSE, text |-> text])} :
             /\ ~p.raises
             /\ ~Insufficient(p.text)
             /\ \E r \in {convert_to_json(p.text, FilenameStr(files[idx].filename), llm)} :
                /\ extracted' = [extracted EXCEPT ![idx] = [done |-> TRUE, text |-> p.text]]
                /\ llmCalls' = [llmCalls EXCEPT
                                   ![idx] = [k \in 1..Len(r.requests) |-> AnswerKind(llm)]]
                /\ EndStep(Append(results,
                                  IF r.outcome = "return"
                                  THEN SuccessResult(files[idx].filename, r.value)
                                  ELSE ErrorResult(files[idx].filename,
                                                   "Error processing file: {e}", r.error)),
                           Append(temp_files, idx), fs \cup {idx})
    /\ UNCHANGED <<truncArgs, truncRet, convArgs, convRet, doc, verr, cfg, request_files, files>>

Next ==
    \/ Upload
    \/ RejectExtension
    \/ SaveFails
    \/ ExtractionFails
    \/ InsufficientText
    \/ Convert

Spec == Init /\ [][Next]_vars

(***************************************************************************)
(* Claims about the truncation.                                            *)
(***************************************************************************)
TruncAvailable ==
    AvailableTokens(truncArgs.system, truncArgs.template, truncArgs.filename,
                    truncArgs.max_context_tokens, truncArgs.max_output_tokens)

\* wasTruncated: the call logged its truncation warning.
WasTruncated(ret) ==
    \E i \in 1..Len(ret.log) :
        ret.log[i].level = "warning" /\ ret.log[i].event = "Text too long ... Truncating"

\* C3: a text whose estimate exceeds a non-negative available budget comes back
\* as exactly its first available*4 characters followed by the fixed notice,
\* available*4 + len(notice) characters long, and the truncation is signalled.
C3_TruncatesToBudget ==
    (truncRet.called /\ TruncAvailable >= 0
        /\ _estimate_tokens(truncArgs.text) > TruncAvailable)
    => /\ truncRet.text = Take(truncArgs.text, TruncAvailable * 4) \o TruncationNotice
       /\ StrLen(Take(truncArgs.text, TruncAvailable * 4)) = TruncAvailable * 4
       /\ StrLen(truncRet.text) = TruncAvailable * 4 + TruncationNoticeLen
       /\ WasTruncated(truncRet)

C3_Witness ==
    /\ truncRet.called /\ TruncAvailable > 0
    /\ _estimate_tokens(truncArgs.text) > TruncAvailable
    /\ StrLen(truncRet.text) = TruncAvailable * 4 + TruncationNoticeLen

\* C4: a text whose estimate floor(len/4) is within the available budget comes
\* back unchanged, without the notice, and no truncation is signalled.
C4_FitsUnchanged ==
    (truncRet.called /\ StrLen(truncArgs.text) \div 4 <= TruncAvailable)
    => /\ truncRet.text = truncArgs.text
       /\ ~WasTruncated(truncRet)

C4_Witness ==
    /\ truncRet.called
    /\ StrLen(truncArgs.text) >= 4
    /\ StrLen(truncArgs.text) \div 4 = TruncAvailable
    /\ truncRet.text = truncArgs.text

\* The budget formula as stated, the safety margin fraction given in hundredths.
BudgetFormula(limit, systemTokens, wrapperTokens, reservedOutput, percent) ==
    limit - (systemTokens + wrapperTokens + reservedOutput) - ((limit * percent) \div 100)

\* The formula on the arguments of the call, at a reservation and a fraction.
TruncFormula(reservedOutput, percent) ==
    BudgetFormula(truncArgs.max_context_tokens,
                  StrLen(truncArgs.system) \div 4,
                  (StrLen(truncArgs.template.head) + StrLen(truncArgs.filename)
                      + StrLen(truncArgs.template.mid)
                      + StrLen(truncArgs.template.tail)) \div 4,
                  reservedOutput, percent)

\* The fraction of the program, in hundredths, and fractions around it.
ProgramPercent == 5
Percents == {0, 1, 4, 5, 6, 50, 99}

\* C11: the budget the call works with (the one it compares the text with and
\* logs) is limit - (estimate(system) + estimate(template rendered with empty
\* content) + reserved output) - floor(limit * fraction), at the program's
\* fraction of 5%; a larger output reservation gives a smaller budget, and a
\* larger fraction never gives a larger one.
C11_AvailableBudget ==
    truncRet.called =>
        /\ TruncAvailable = TruncFormula(truncArgs.max_output_tokens, ProgramPercent)
        /\ WasTruncated(truncRet)
              <=> StrLen(truncArgs.text) \div 4
                     > TruncFormula(truncArgs.max_output_tokens, ProgramPercent)
        /\ WasTruncated(truncRet)
              => truncRet.log[1].detail[2]
                    = TruncFormula(truncArgs.max_output_tokens, ProgramPercent)
        /\ \A o \in TruncOutputs :
              o > truncArgs.max_output_tokens
              => /\ AvailableTokens(truncArgs.system, truncArgs.template,
                                    truncArgs.filename, truncArgs.max_context_tokens, o)
                       = TruncFormula(o, ProgramPercent)
                 /\ TruncFormula(o, ProgramPercent) < TruncAvailable
        /\ \A p, q \in Percents :
              p <= q => TruncFormula(truncArgs.max_output_tokens, q)
                           <= TruncFormula(truncArgs.max_output_tokens, p)

\* A context of 21 tokens, whose margin floor(21 * 0.05) = 1 is not exact: the
\* call truncated to the budget of the formula and logged it.
C11_Witness ==
    /\ truncRet.called /\ WasTruncated(truncRet)
    /\ truncArgs.max_context_tokens = 21 /\ truncArgs.max_output_tokens = 5
    /\ StrLen(truncArgs.system) = 8 /\ StrLen(truncArgs.filename) = 2
    /\ truncArgs.template # user_prompt_template
    /\ truncRet.log[1].detail[2] = 21 - (2 + 2 + 5) - 1

(***************************************************************************)
(* Claims about one conversion.                                            *)
(***************************************************************************)
ConvAvailable ==
    AvailableTokens(system_prompt, user_prompt_template, convArgs.filename,
                    MODEL_CONTEXT_LIMIT, convRet.reserved_output)

\* C1: the request convert_to_json sends stays inside the context window, for
\* every text, filename and configured output reservation: the estimates of
\* its system prompt and of its final user prompt plus the max output tokens
\* it asks for are at most the model context limit.
C1_RequestWithinContext ==
    convRet.called =>
        \A i \in 1..Len(convRet.requests) :
            _estimate_tokens(convRet.requests[i].system)
                + _estimate_tokens(convRet.requests[i].user)
                + convRet.requests[i].max_tokens <= MODEL_CONTEXT_LIMIT

\* C2: under a negative available budget a text of at least one estimated
\* token is cut to nothing: the prompt holds the notice alone, as it does for
\* an available budget of 0.
C2_NegativeBudgetIsZero ==
    (convRet.called /\ ConvAvailable < 0 /\ _estimate_tokens(convArgs.text) > 0)
    => \A i \in 1..Len(convRet.requests) :
          convRet.requests[i].user =
              Format(user_prompt_template, convArgs.filename,
                     Take(convArgs.text, 0) \o TruncationNotice)

\* The output reservation of the text's tier: the configured value, else the
\* tier's default.
TierReservation(len) ==
    IF cfg.max_output_tokens.set THEN cfg.max_output_tokens.value
    ELSE IF len > 300000 THEN 16000
    ELSE IF len > 100000 THEN 8000
    ELSE 4000

\* C10: the max output tokens are those of the tier of the text's length
\* before truncation (large above 300,000 characters, medium above 100,000,
\* default otherwise), and the budget reserves the very value the request
\* carries as max_tokens.
C10_OutputTier ==
    convRet.called =>
        /\ Len(convRet.requests) = 1
        /\ convRet.requests[1].max_tokens = TierReservation(StrLen(convArgs.text))
        /\ convRet.reserved_output = convRet.requests[1].max_tokens
        /\ convRet.requests[1].user =
              Format(user_prompt_template, convArgs.filename,
                     _truncate_to_token_limit(
                         convArgs.text, system_prompt, user_prompt_template,
                         convArgs.filename, MODEL_CONTEXT_LIMIT,
                         convRet.requests[1].max_tokens).text)

\* A text of exactly 300,000 characters, sent with the medium reservation.
C10_Witness ==
    /\ convRet.called /\ ~cfg.max_output_tokens.set
    /\ StrLen(convArgs.text) = 300000
    /\ convRet.requests[1].max_tokens = 8000

\* C6: a response that parses as JSON is returned as parsed, whether or not it
\* matches the schema; a schema violation is logged as a warning and nothing more.
C6_ValidationAdvisory ==
    (convRet.called /\ convRet.llm.kind = "content" /\ convRet.llm.is_json)
    => /\ convRet.outcome = "return"
       /\ convRet.value = convRet.llm.doc
       /\ (validate_json_structure(convRet.llm.doc) # None
            => \E i \in 1..Len(convRet.log) :
                  /\ convRet.log[i].level = "warning"
                  /\ convRet.log[i].event = "JSON structure validation warning")

C6_Witness ==
    /\ convRet.called /\ convRet.llm.is_json
    /\ validate_json_structure(convRet.llm.doc) # None
    /\ convRet.outcome = "return"
    /\ convRet.value = convRet.llm.doc

(***************************************************************************)
(* Claims about the schema validation.                                     *)
(***************************************************************************)
ConformantTopic(topic) ==
    /\ topic.t = "object"
    /\ \A f \in {"topic_id", "title", "content", "examples",
                 "real_world_applications", "keywords"} : f \in DOMAIN topic.fields
    /\ \A f \in {"examples", "real_world_applications", "keywords"} :
          topic.fields[f].t = "array"

ConformantChapter(chapter) ==
    /\ chapter.t = "object"
    /\ "title" \in DOMAIN chapter.fields
    /\ "topics" \in DOMAIN chapter.fields
    /\ chapter.fields["topics"].t = "array"
    /\ \A j \in 1..Len(chapter.fields["topics"].items) :
          ConformantTopic(chapter.fields["topics"].items[j])

Conformant(d) ==
    /\ d.t = "object"
    /\ "subject_name" \in DOMAIN d.fields
    /\ LET subject == d.fields["subject_name"]
       IN  /\ subject.t = "object"
           /\ {"title", "description", "chapters"} \subseteq DOMAIN subject.fields
           /\ subject.fields["chapters"].t = "array"
           /\ \A i \in 1..Len(subject.fields["chapters"].items) :
                 ConformantChapter(subject.fields["chapters"].items[i])

\* C9: validate_json_structure returns no error exactly for the conformant
\* documents (root object, subject_name object with title, description and an
\* array chapters, chapters objects with title and an array topics, topics
\* objects with the six fields, the last three arrays); a document without
\* subject_name gets an error naming subject_name, the minimal conformant
\* document gets none.
C9_ValidatesExactlyConformant ==
    verr.called =>
        /\ (verr.error = None) <=> Conformant(doc)
        /\ (doc.t # "object" \/ "subject_name" \notin DOMAIN doc.fields)
              => (verr.error # None /\ verr.error.field = "subject_name")
        /\ doc = MinimalDoc => verr.error = None

\* A conformant document of two chapters is accepted, one topic of it filled.
C9_Witness ==
    /\ verr.called /\ verr.error = None
    /\ Len(ChaptersOf(doc)) >= 2
    /\ TotalTopics(ChaptersOf(doc)) >= 2

\* A document whose only violation is a topic's keywords not being an array.
C9_WitnessRejected ==
    /\ verr.called
    /\ verr.error = Err("Chapter {i}, Topic {j} '{array_field}' must be an array",
                        1, 0, "keywords")

(* Every violation a document has, each with its place in the checking order:
   <<chapter, check, topic, field>>.  Root-level checks come first (chapter -1:
   root, subject_name an object, title, description, chapters, chapters an
   array); a chapter's own checks (1 object, 2 title, 3 topics, 4 topics an
   array) come before its topics (5); a topic's checks are 0 object, 1..6 the
   six fields present, 7..9 the three arrays.  A check has a violation only
   where the value it looks at exists. *)
TopicFieldsInOrder ==
    <<"topic_id", "title", "content", "examples", "real_world_applications", "keywords">>
TopicArraysInOrder == <<"examples", "real_world_applications", "keywords">>
SubjectFieldsInOrder == <<"title", "description", "chapters">>

Violation(key, msg, i, j, field) ==
    [key |-> key, err |-> [msg |-> msg, chapter |-> i, topic |-> j, field |-> field]]

TopicViolations(i, j, topic) ==
    IF topic.t # "object"
    THEN {Violation(<<i, 5, j, 0>>, "Chapter {i}, Topic {j} must be an object", i, j, "")}
    ELSE {Violation(<<i, 5, j, k>>, "Chapter {i}, Topic {j} missing '{field}'", i, j,
                    TopicFieldsInOrder[k]) :
             k \in {n \in 1..6 : TopicFieldsInOrder[n] \notin DOMAIN topic.fields}}
         \cup
         {Violation(<<i, 5, j, 6 + k>>,
                    "Chapter {i}, Topic {j} '{array_field}' must be an array", i, j,
                    TopicArraysInOrder[k]) :
             k \in {n \in 1..3 : /\ TopicArraysInOrder[n] \in DOMAIN topic.fields
                                 /\ topic.fields[TopicArraysInOrder[n]].t # "array"}}

ChapterViolations(i, chapter) ==
    IF chapter.t # "object"
    THEN {Violation(<<i, 1, -1, 0>>, "Chapter {i} must be an object", i, -1, "")}
    ELSE (IF "title" \notin DOMAIN chapter.fields
          THEN {Violation(<<i, 2, -1, 0>>, "Chapter {i} missing 'title'", i, -1, "title")}
          ELSE {})
         \cup
         (IF "topics" \notin DOMAIN chapter.fields
          THEN {Violation(<<i, 3, -1, 0>>, "Chapter {i} missing 'topics'", i, -1, "topics")}
          ELSE IF chapter.fields["topics"].t # "array"
          THEN {Violation(<<i, 4, -1, 0>>, "Chapter {i} 'topics' must be an array",
                          i, -1, "topics")}
          ELSE UNION {TopicViolations(i, j - 1, chapter.fields["topics"].items[j]) :
                         j \in 1..Len(chapter.fields["topics"].items)})

SubjectViolations(subject) ==
    IF subject.t # "object"
    THEN {Violation(<<-1, 2, -1, 0>>, "'subject_name' must be an object",
                    -1, -1, "subject_name")}
    ELSE {Violation(<<-1, 2 + k, -1, 0>>, "Missing required field '{field}' in subject_name",
                    -1, -1, SubjectFieldsInOrder[k]) :
             k \in {n \in 1..3 : SubjectFieldsInOrder[n] \notin DOMAIN subject.fields}}
         \cup
         (IF "chapters" \notin DOMAIN subject.fields THEN {}
          ELSE IF subject.fields["chapters"].t # "array"
          THEN {Violation(<<-1, 6, -1, 0>>, "'chapters' must be an array",
                          -1, -1, "chapters")}
          ELSE UNION {ChapterViolations(i - 1, subject.fields["chapters"].items[i]) :
                         i \in 1..Len(subject.fields["chapters"].items)})

Violations(d) ==
    IF d.t # "object" \/ "subject_name" \notin DOMAIN d.fields
    THEN {Violation(<<-1, 1, -1, 0>>, "Missing 'subject_name' at root level",
                    -1, -1, "subject_name")}
    ELSE SubjectViolations(d.fields["subject_name"])

\* a comes before b in the checking order
Before(a, b) ==
    \E n \in 1..4 : a[n] < b[n] /\ \A m \in 1..(n - 1) : a[m] = b[m]

\* C12: validate_json_structure reports the first violation of the document in
\* depth-first order (root, subject_name's fields title, description, chapters,
\* then chapter by chapter its own checks and its topics in index order, a
\* topic's six fields before its arrays), with the 0-based chapter index, topic
\* index and field of that violation; it reports nothing when there is none,
\* and never a violation that has another before it.
C12_FirstViolationInOrder ==
    verr.called =>
        \E all \in {Violations(doc)} :
            /\ (verr.error = None) <=> (all = {})
            /\ verr.error # None
                  => \E v \in all :
                        /\ verr.error = v.err
                        /\ \A w \in all : ~Before(w.key, v.key)

\* Chapter 0 holds a topic whose keywords is not an array, chapter 1 a topic
\* that lacks topic_id and whose keywords is not an array either: of the three
\* violations the one of chapter 0 is reported.
C12_Witness ==
    /\ verr.called
    /\ Cardinality(Violations(doc)) = 3
    /\ \E v \in Violations(doc) : v.err.chapter = 1 /\ v.err.field = "topic_id"
    /\ verr.error = Err("Chapter {i}, Topic {j} '{array_field}' must be an array",
                        0, 0, "keywords")

\* A topic that lacks topic_id and whose keywords is not an array: the missing
\* field is reported, not the array.
C12_WitnessFieldsBeforeArrays ==
    /\ verr.called
    /\ Cardinality(Violations(doc)) = 2
    /\ verr.error = Err("Chapter {i}, Topic {j} missing '{field}'", 0, 0, "topic_id")

(***************************************************************************)
(* Claims about the upload handler.                                        *)
(***************************************************************************)
Finished == pc = "done" /\ files # <<>> /\ idx >= 1
Batch == Len(files) >= 2

\* C5: in a multi-file upload every file gets its own outcome, whatever goes
\* wrong with another file (extension, saving, extraction, text, LLM call,
\* response), and the request as a whole does not fail.
C5_PerFileIsolation ==
    (Finished /\ Batch /\ ~(response.status = 400 /\ response.error = "Too many files"))
    => /\ response.status = 200 /\ response.kind = "structured"
       /\ Len(response.results) = Len(files)
       /\ \A i \in 1..Len(files) :
             /\ response.results[i].filename = files[i].filename
             /\ response.results[i].status \in {"success", "error"}

\* C7: a response that is not parseable JSON makes its file's conversion a
\* hard failure: the file gets an error result that carries the parse error,
\* never a success and never a document.
C7_UnparseableIsFailure ==
    \A i \in 1..Len(results) :
        (\E k \in 1..Len(llmCalls[i]) : llmCalls[i][k] = "not_json")
        => /\ results[i].status = "error"
           /\ results[i].data = JNull
           /\ results[i].error.e = "ValueError: Invalid JSON response from OpenAI"
           /\ (pc = "done" /\ response.kind = "structured")
                 => response.results[i].status = "error"
           /\ (pc = "done" /\ Len(files) = 1) => response.status = 400

\* The second file of three got an unparseable response; the third succeeded.
C7_Witness ==
    /\ pc = "done" /\ Len(results) = 3
    /\ llmCalls[2] = <<"not_json">>
    /\ results[2].status = "error"
    /\ results[3].status = "success"

NamedParts == SelectSeq(request_files, LAMBDA f : f.filename # <<>>)

\* C13: a structured (multi-file) response holds exactly one result per
\* uploaded file with a non-empty filename, in upload order, each with status
\* success or error, and its summary counts add up: successful + failed =
\* total_files, the number of those files.
C13_StructuredResponse ==
    (pc = "done" /\ response.kind = "structured")
    => /\ Len(response.results) = Len(NamedParts)
       /\ \A i \in 1..Len(NamedParts) :
             /\ response.results[i].filename = NamedParts[i].filename
             /\ response.results[i].status \in {"success", "error"}
       /\ response.summary.successful + response.summary.failed
             = response.summary.total_files
       /\ response.summary.total_files = Len(NamedParts)
       /\ response.summary.successful
             = Cardinality({i \in 1..Len(response.results) :
                              response.results[i].status = "success"})

\* Three parts, the second without a filename: two results, the first a
\* success and the second an error.
C13_Witness ==
    /\ pc = "done" /\ response.kind = "structured"
    /\ Len(request_files) = 3 /\ request_files[2].filename = <<>>
    /\ Len(response.results) = 2
    /\ response.results[1].status = "success"
    /\ response.results[2].status = "error"
    /\ response.summary = [total_files |-> 2, successful |-> 1, failed |-> 1]

\* C14: when the handling of an upload request has ended, whatever its
\* outcome, no temporary file created for the request is left on disk.
C14_TempFilesDeleted == pc = "done" => fs = {}

\* When no unlink failed, every path of temp_files is gone, and a file that
\* is left is the one whose upload could not be saved.
C14_DeletedWhenRegistered ==
    (pc = "done" /\ unlink_warnings = <<>>)
    => /\ \A i \in 1..Len(temp_files) : temp_files[i] \notin fs
       /\ fs # {} => (response.status = 500 /\ fs = {idx})

====
